---- MODULE Spec2Model ----
(***************************************************************************)
(* A model of hc-tfe-attestation-probe.py: main() creates the two scratch  *)
(* directories, runReport() walks the organisation's workspaces, resolves  *)
(* the pair of configuration versions of each workspace's latest run,      *)
(* downloads and extracts both archives and prints a diff, and main()      *)
(* deletes the scratch directories.  The process is sequential; pc is the  *)
(* position of the one thread of control.  The service's answers and the   *)
(* environment are inputs, drawn from small sets.  The filesystem outlives *)
(* the process, so a later invocation starts on what an earlier one left.  *)
(*                                                                         *)
(* Python values are tagged records; strings that the code inspects        *)
(* (identifiers, paths, the release) are sequences of characters.          *)
(***************************************************************************)
EXTENDS Integers, Sequences, FiniteSets, TLC

VARIABLES
    pc,             \* position of the process (see the actions)
    exitCode,       \* exit status of a terminated process, -1 while it runs
    fault,          \* what ended the process: "none", "SystemExit" or an exception
    invocation,     \* number of the current process invocation
    env,            \* which environment inputs / arguments are supplied
    prepared,       \* this invocation's handleDirectories('create') succeeded
    dirs,           \* the scratch directories cv0tgzDir, cv1tgzDir on disk
    tgz,            \* the temporary archive files cv0tgzPath, cv1tgzPath on disk
    releaseBlob,    \* runReport: the release answered by the admin endpoint
    nWs,            \* runReport: number of workspaces of the organisation
    key,            \* runReport: index of the workspace being processed (sorted)
    runBlob,        \* runReport: the last answer of the runs endpoint
    runKey,         \* workspace index for which runBlob was fetched (0: never)
    cvListBlob,     \* runReport: the last answer of the configuration-versions endpoint
    cvListKey,      \* workspace index for which cvListBlob was fetched (0: never)
    multipleCV,     \* runReport local, never initialised by the code
    multipleCVKey,  \* workspace index in which multipleCV was assigned (0: never)
    firstCV,        \* runReport local, never initialised, never read
    cv0,            \* runReport local: id selected as the latest version
    cv1,            \* runReport local: id selected as the previous version
    events,         \* what the current workspace iteration did, in order
    diffOut         \* the diff lines printed in the current workspace iteration

vars == <<pc, exitCode, fault, invocation, env, prepared, dirs, tgz, releaseBlob,
          nWs, key,
          runBlob, runKey, cvListBlob, cvListKey, multipleCV, multipleCVKey, firstCV,
          cv0, cv1, events, diffOut>>

loopVars == <<nWs, key, runBlob, runKey, cvListBlob, cvListKey, multipleCV,
              multipleCVKey, firstCV, cv0, cv1>>

procVars == <<releaseBlob, loopVars>>

----------------------------------------------------------------------------
(* Bounds of the model *)

MaxWorkspaces == 2
MaxCvList == 2
MaxExtraKeys == 1
MaxInvocations == 2
MaxCalls == 4

----------------------------------------------------------------------------
(* Python values *)

Unbound == [t |-> "unbound"]
Missing == [t |-> "missing"]
PyNone == [t |-> "None"]
PyTrue == [t |-> "bool", v |-> TRUE]
PyStr(s) == [t |-> "str", v |-> s]

Min(a, b) == IF a < b THEN a ELSE b

Item(seq, i) == seq[i + 1]

startswith(s, prefix) ==
    /\ Len(s) >= Len(prefix)
    /\ SubSeq(s, 1, Len(prefix)) = prefix

truthy(x) ==
    CASE x.t = "None" -> FALSE
      [] x.t = "str" -> Len(x.v) > 0
      [] x.t = "bool" -> x.v
      [] OTHER -> TRUE

----------------------------------------------------------------------------
(* Globals of the script *)

cv0tgzDir == <<"/", "v", "a", "r", "/", "t", "m", "p", "/", "c", "v", "0">>
cv1tgzDir == <<"/", "v", "a", "r", "/", "t", "m", "p", "/", "c", "v", "1">>
cv0tgzPath == "/var/tmp/cv0blob.tgz"
cv1tgzPath == "/var/tmp/cv1blob.tgz"

CvPrefix == <<"c", "v", "-">>

Absent == [t |-> "absent"]
Dir(tree) == [t |-> "dir", tree |-> tree]
File(cv, data) == [t |-> "file", cv |-> cv, data |-> data]

----------------------------------------------------------------------------
(* Inputs: the environment and the answers of the service *)

\* The environment and command line of one invocation.
\* What parser.parse_args() of line 481 makes of the command line: "parsed"
\* (it returns the arguments), "help" (it meets -h or --help, prints the usage
\* and exits with status 0) or "error" (an unknown or malformed argument, exit
\* status 2). org tells whether a parsed command line carries -o.
ArgOutcomes == {"parsed", "help", "error"}

EnvAll ==
    [TFE_ADDR |-> TRUE, TFE_TOKEN |-> TRUE, TFE_CACERT |-> TRUE, org |-> TRUE,
     args |-> "parsed"]

\* Every variable exported, or exactly one of them missing.
EnvVariables ==
    {EnvAll, [EnvAll EXCEPT !.TFE_ADDR = FALSE],
     [EnvAll EXCEPT !.TFE_TOKEN = FALSE], [EnvAll EXCEPT !.TFE_CACERT = FALSE]}

Envs ==
    {[e EXCEPT !.args = a] : e \in EnvVariables, a \in ArgOutcomes}
       \cup {[EnvAll EXCEPT !.org = FALSE]}

\* Releases the /admin/release endpoint may report.
Releases ==
    {<<"v", "2", "0", "2", "2", "0", "2", "-", "1">>,
     <<"v", "2", "0", "2", "2", "0", "3", "-", "1">>,
     <<"v", "-", "2", "0", "2", "2", "0", "-", "1">>,
     <<"v">>}

Digits == <<"1", "2", "3", "4", "5", "6", "7", "8", "9">>

\* The id of the k-th configuration version pushed to a workspace.
CvId(k) == CvPrefix \o <<Digits[k]>>

\* A workspace's version list of n entries: position 0 is the most recent.
VersionList(n) == [i \in 1..n |-> [id |-> PyStr(CvId(n - i + 1))]]

\* Answers of the configuration-versions endpoint: a JSON object with or
\* without a "data" member and with some other top-level members (links,
\* meta, errors).
CvListBlobs ==
    {[t |-> "dict", hasData |-> TRUE, extra |-> e, data |-> VersionList(n)] :
        e \in 0..MaxExtraKeys, n \in 0..MaxCvList}
    \cup {[t |-> "dict", hasData |-> FALSE, extra |-> e, data |-> <<>>] :
        e \in 0..MaxExtraKeys}

\* What the latest run says of its configuration version: the relationship is
\* not there, its id is null, empty, or the id of a configuration version.
RunCvRefs ==
    {Missing, PyNone, PyStr(<<>>)} \cup {PyStr(CvId(k)) : k \in 1..MaxCvList}

\* File trees an archive may hold: sets of <<name, content>>, one per name.
Trees == {{<<"main.tf", 1>>}, {<<"main.tf", 2>>}, {<<"vars.tf", 1>>}}

\* Decompressed bodies of a download: a tar archive of a tree, or no tar at all.
Payloads == {[t |-> "tar", tree |-> tr] : tr \in Trees} \cup {[t |-> "garbage"]}

\* How a request may fail: requests.get raises, the body is no JSON, the body
\* is no gzip stream.
MetaFailures == {"ConnectionError", "JSONDecodeError"}
DownloadFailures == {"ConnectionError", "zlib.error"}

----------------------------------------------------------------------------
(* Pure functions *)

\* len() of a JSON object: the number of its top-level members.
len(blob) == (IF blob.hasData THEN 1 ELSE 0) + blob.extra

DigitVal(c) ==
    CASE c = "0" -> 0 [] c = "1" -> 1 [] c = "2" -> 2 [] c = "3" -> 3
      [] c = "4" -> 4 [] c = "5" -> 5 [] c = "6" -> 6 [] c = "7" -> 7
      [] c = "8" -> 8 [] c = "9" -> 9

DecimalDigits == {"0", "1", "2", "3", "4", "5", "6", "7", "8", "9"}

\* The ASCII blanks: space, tab, line feed, carriage return, form feed and
\* vertical tab (the last one written as the character itself).
Whitespace == {" ", "\t", "\n", "\r", "\f", ""}

\* str.strip() as int() applies it: blanks at both ends are dropped.
RECURSIVE strip(_)
strip(s) ==
    IF Len(s) = 0 THEN s
    ELSE IF s[1] \in Whitespace THEN strip(SubSeq(s, 2, Len(s)))
    ELSE IF s[Len(s)] \in Whitespace THEN strip(SubSeq(s, 1, Len(s) - 1))
    ELSE s

HasSign(s) == Len(s) > 0 /\ s[1] \in {"+", "-"}

\* What follows the optional sign of a stripped literal.
Unsigned(s) == IF HasSign(s) THEN SubSeq(s, 2, Len(s)) ELSE s

\* Digits, with single underscores allowed between two digits.
IsDigitGroup(s) ==
    /\ Len(s) > 0
    /\ \A i \in 1..Len(s) : s[i] \in DecimalDigits \cup {"_"}
    /\ s[1] # "_"
    /\ s[Len(s)] # "_"
    /\ \A i \in 1..(Len(s) - 1) : ~(s[i] = "_" /\ s[i + 1] = "_")

\* The ASCII strings of which int() returns a number: blanks around an optional
\* sign and a digit group.
IsDecimal(s) == IsDigitGroup(Unsigned(strip(s)))

\* The value of a digit group, its underscores skipped.
RECURSIVE DecimalValue(_)
DecimalValue(s) ==
    IF Len(s) = 0 THEN 0
    ELSE IF s[Len(s)] = "_" THEN DecimalValue(SubSeq(s, 1, Len(s) - 1))
    ELSE 10 * DecimalValue(SubSeq(s, 1, Len(s) - 1)) + DigitVal(s[Len(s)])

ValueError == "ValueError"

\* int(s) on an ASCII string: the number, or the ValueError it raises.
int(s) ==
    IF ~IsDecimal(s) THEN ValueError
    ELSE LET t == strip(s)
         IN  IF HasSign(t) /\ t[1] = "-"
             THEN 0 - DecimalValue(Unsigned(t))
             ELSE DecimalValue(Unsigned(t))

\* Python's s[a:b] for 0 <= a <= b.
Slice(s, a, b) == SubSeq(s, a + 1, Min(b, Len(s)))

yearMonth(release) == int(Slice(release, 1, 7))

MinRelease == 202203

\* tarfile.extractall: the archive's entries replace the entries of the same
\* name, every other entry of the directory stays.
extractall(tree, target) ==
    tree \cup {e \in target : \A a \in tree : a[1] # e[1]}

\* difflib.unified_diff(a, b, fromfile, tofile, lineterm='', n=0) on two
\* sequences with at most one changed region; a and b are the sequences the
\* call is given, here the characters of two strings.
RECURSIVE CommonPrefix(_, _)
CommonPrefix(a, b) ==
    IF Len(a) = 0 \/ Len(b) = 0 \/ Head(a) # Head(b) THEN 0
    ELSE 1 + CommonPrefix(Tail(a), Tail(b))

RECURSIVE Reverse(_)
Reverse(s) == IF Len(s) = 0 THEN <<>> ELSE Append(Reverse(Tail(s)), Head(s))

FormatRange(start, stop) ==
    IF stop - start = 1 THEN <<start + 1>>
    ELSE IF stop - start = 0 THEN <<start, 0>>
    ELSE <<start + 1, stop - start>>

unified_diff(a, b, fromfile, tofile) ==
    IF a = b THEN <<>>
    ELSE LET p == CommonPrefix(a, b)
             s == CommonPrefix(Reverse(SubSeq(a, p + 1, Len(a))),
                               Reverse(SubSeq(b, p + 1, Len(b))))
             del == SubSeq(a, p + 1, Len(a) - s)
             ins == SubSeq(b, p + 1, Len(b) - s)
         IN  << <<"---", fromfile>>, <<"+++", tofile>>,
                <<"@@", FormatRange(p, Len(a) - s), FormatRange(p, Len(b) - s)>> >>
             \o [i \in 1..Len(del) |-> <<"-", del[i]>>]
             \o [i \in 1..Len(ins) |-> <<"+", ins[i]>>]

\* handleDirectories: os.mkdir / shutil.rmtree on cv0tgzDir then cv1tgzDir,
\* stopping at the first OSError.  ok is FALSE when the call ends in exit(1).
\* os.makedirs(dir, exist_ok=True) in the place of os.mkdir(dir).
CreateDirsExistOk(d) ==
    [ok |-> TRUE,
     dirs |-> [cv0 |-> IF d.cv0 = Absent THEN Dir({}) ELSE d.cv0,
               cv1 |-> IF d.cv1 = Absent THEN Dir({}) ELSE d.cv1]]

CreateDirs(d) ==
    IF d.cv0 # Absent THEN [ok |-> FALSE, dirs |-> d]
    ELSE IF d.cv1 # Absent
         THEN [ok |-> FALSE, dirs |-> [d EXCEPT !.cv0 = Dir({})]]
         ELSE [ok |-> TRUE, dirs |-> [cv0 |-> Dir({}), cv1 |-> Dir({})]]

DeleteDirs(d) ==
    IF d.cv0 = Absent THEN [ok |-> FALSE, dirs |-> d]
    ELSE IF d.cv1 = Absent
         THEN [ok |-> FALSE, dirs |-> [d EXCEPT !.cv0 = Absent]]
         ELSE [ok |-> TRUE, dirs |-> [cv0 |-> Absent, cv1 |-> Absent]]

handleDirectories(d, handle) ==
    CASE handle = "create" -> CreateDirs(d)
      [] handle = "delete" -> DeleteDirs(d)
      [] OTHER -> [ok |-> FALSE, dirs |-> d]

\* A loop that leaves the last workspace out.
LoopDoneEarly(k, n) == k >= n

\* The loop over sorted(workspaces) is over once every workspace had its turn.
LoopDone(k, n) == k > n

\* A check that lets every pair of ids pass.
MismatchNever(ref, first) == FALSE

\* The consistency check of the run's version against element 0 of the list.
Mismatch(ref, first) == ref # first

----------------------------------------------------------------------------
(* Control *)

\* exit(status): SystemExit ends the process with that status.
exit(status) ==
    /\ pc' = "exited"
    /\ exitCode' = status
    /\ fault' = "SystemExit"

\* An exception nothing catches: traceback, exit status 1.
raise(exc) ==
    /\ pc' = "exited"
    /\ exitCode' = 1
    /\ fault' = exc

Goto(p) ==
    /\ pc' = p
    /\ UNCHANGED <<exitCode, fault>>

RunRef == Item(runBlob.data, 0).cv

Event(op, cv, target) == [op |-> op, cv |-> cv, target |-> target]

Init ==
    /\ pc = "import"
    /\ exitCode = -1
    /\ fault = "none"
    /\ invocation = 1
    /\ env \in Envs
    /\ prepared = FALSE
    /\ dirs = [cv0 |-> Absent, cv1 |-> Absent]
    /\ tgz = [cv0 |-> Absent, cv1 |-> Absent]
    /\ releaseBlob = Unbound
    /\ nWs = 0
    /\ key = 0
    /\ runBlob = Unbound
    /\ runKey = 0
    /\ cvListBlob = Unbound
    /\ cvListKey = 0
    /\ multipleCV = Unbound
    /\ multipleCVKey = 0
    /\ firstCV = Unbound
    /\ cv0 = Unbound
    /\ cv1 = Unbound
    /\ events = <<>>
    /\ diffOut = <<>>

\* The operator runs the script again: a new process on the same filesystem.
Invoke ==
    /\ pc = "exited"
    /\ invocation < MaxInvocations
    /\ invocation' = invocation + 1
    /\ pc' = "import"
    /\ exitCode' = -1
    /\ fault' = "none"
    /\ env' \in Envs
    /\ prepared' = FALSE
    /\ releaseBlob' = Unbound
    /\ nWs' = 0
    /\ key' = 0
    /\ runBlob' = Unbound
    /\ runKey' = 0
    /\ cvListBlob' = Unbound
    /\ cvListKey' = 0
    /\ multipleCV' = Unbound
    /\ multipleCVKey' = 0
    /\ firstCV' = Unbound
    /\ cv0' = Unbound
    /\ cv1' = Unbound
    /\ events' = <<>>
    /\ diffOut' = <<>>
    /\ UNCHANGED <<dirs, tgz>>

\* Lines 27-41: the module's globals; TFE_ADDR.startswith on an unset TFE_ADDR
\* (the terminal size of line 34 is taken to be readable).
ModuleGlobals ==
    /\ pc = "import"
    /\ IF ~env.TFE_ADDR THEN raise("AttributeError") ELSE Goto("main")
    /\ UNCHANGED <<invocation, env, prepared, dirs, tgz, procVars, events, diffOut>>

\* Lines 444-497: main() up to the parsed arguments.
MainChecks ==
    /\ pc = "main"
    /\ IF ~env.TFE_ADDR \/ ~env.TFE_TOKEN \/ ~env.TFE_CACERT THEN exit(1)
       ELSE IF env.args = "help" THEN exit(0)
       ELSE IF env.args = "error" THEN exit(2)
       ELSE IF ~env.org THEN exit(1)
       ELSE Goto("create")
    /\ UNCHANGED <<invocation, env, prepared, dirs, tgz, procVars, events, diffOut>>

\* Line 509: handleDirectories(DEBUG, 'create').
MainCreate ==
    /\ pc = "create"
    /\ LET r == handleDirectories(dirs, "create")
       IN  /\ dirs' = r.dirs
           /\ prepared' = r.ok
           /\ IF r.ok THEN Goto("release") ELSE exit(1)
    /\ UNCHANGED <<invocation, env, tgz, procVars, events, diffOut>>

\* Lines 196-205: the release of the service must be 202203 or later.
CheckRelease ==
    /\ pc = "release"
    /\ \/ /\ \E f \in MetaFailures :
                IF f = "ConnectionError" THEN exit(1) ELSE raise(f)
          /\ UNCHANGED releaseBlob
       \/ \E release \in Releases :
             /\ releaseBlob' = PyStr(release)
             /\ IF ~IsDecimal(Slice(release, 1, 7)) THEN raise(ValueError)
                ELSE IF yearMonth(release) < MinRelease THEN exit(1)
                ELSE Goto("workspaces")
    /\ UNCHANGED <<invocation, env, prepared, dirs, tgz, loopVars, events, diffOut>>

\* Lines 209-224: the workspaces of the organisation, by name.
ListWorkspaces ==
    /\ pc = "workspaces"
    /\ \/ /\ \E f \in MetaFailures :
                IF f = "ConnectionError" THEN exit(1) ELSE raise(f)
          /\ UNCHANGED <<nWs, key>>
       \/ /\ nWs' \in 0..MaxWorkspaces
          /\ key' = 1
          /\ Goto("run")
    /\ UNCHANGED <<invocation, env, prepared, dirs, tgz, releaseBlob, runBlob, runKey, cvListBlob,
                   cvListKey, multipleCV, multipleCVKey, firstCV, cv0, cv1,
                   events, diffOut>>

\* Line 225, once the loop is over: runReport returns.
ReportDone ==
    /\ pc = "run"
    /\ LoopDone(key, nWs)
    /\ Goto("delete")
    /\ UNCHANGED <<invocation, env, prepared, dirs, tgz, procVars, events, diffOut>>

\* Lines 225-254: the next workspace and its latest run.
FetchRun ==
    /\ pc = "run"
    /\ ~LoopDone(key, nWs)
    /\ events' = <<>>
    /\ diffOut' = <<>>
    /\ \/ /\ \E f \in MetaFailures :
                IF f = "ConnectionError" THEN exit(1) ELSE raise(f)
          /\ UNCHANGED <<runBlob, runKey, key>>
       \/ \* no runs yet: line 243, then line 423
          /\ runBlob' = [t |-> "dict", data |-> <<>>]
          /\ runKey' = key
          /\ key' = key + 1
          /\ Goto("run")
       \/ \E ref \in RunCvRefs :
             /\ runBlob' = [t |-> "dict", data |-> <<[cv |-> ref]>>]
             /\ runKey' = key
             /\ key' = key
             /\ IF ref = Missing THEN raise("KeyError") ELSE Goto("resolve")
    /\ UNCHANGED <<invocation, env, prepared, dirs, tgz, releaseBlob, nWs, cvListBlob,
                   cvListKey, multipleCV, multipleCVKey, firstCV, cv0, cv1>>

\* Lines 263-275: a run whose version id begins with cv- has the workspace's
\* version list fetched; len() of the answer sets firstCV or multipleCV.
\* (The except KeyError of line 274 catches nothing: line 251 has evaluated
\* the one subscript chain of the block already.)
ResolveVersions ==
    /\ pc = "resolve"
    /\ IF RunRef = PyNone
       THEN /\ raise("AttributeError")
            /\ UNCHANGED <<cvListBlob, cvListKey, multipleCV, multipleCVKey,
                           firstCV, events>>
       ELSE IF ~startswith(RunRef.v, CvPrefix)
       THEN /\ Goto("select")
            /\ UNCHANGED <<cvListBlob, cvListKey, multipleCV, multipleCVKey,
                           firstCV, events>>
       ELSE \/ /\ \E f \in MetaFailures :
                     IF f = "ConnectionError" THEN exit(1) ELSE raise(f)
               /\ UNCHANGED <<cvListBlob, cvListKey, multipleCV, multipleCVKey,
                              firstCV, events>>
            \/ \E blob \in CvListBlobs :
                  /\ cvListBlob' = blob
                  /\ cvListKey' = key
                  /\ events' = Append(events, Event("list", RunRef, "configuration-versions"))
                  /\ IF len(blob) = 0
                     THEN /\ exit(1)
                          /\ UNCHANGED <<multipleCV, multipleCVKey, firstCV>>
                     ELSE IF len(blob) = 1
                     THEN /\ firstCV' = PyTrue
                          /\ UNCHANGED <<multipleCV, multipleCVKey>>
                          /\ Goto("select")
                     ELSE /\ multipleCV' = PyTrue
                          /\ multipleCVKey' = key
                          /\ UNCHANGED firstCV
                          /\ Goto("select")
    /\ UNCHANGED <<invocation, env, prepared, dirs, tgz, releaseBlob, nWs, key, runBlob, runKey,
                   cv0, cv1, diffOut>>


\* Lines 277-291: with multipleCV set, the run's version is checked against
\* element 0 of the list, and elements 0 and 1 become cv0 and cv1.  multipleCV
\* and cvListBlob are whatever the function's locals hold at this point.
SelectPair ==
    /\ pc = "select"
    /\ IF multipleCV = Unbound
       THEN /\ raise("UnboundLocalError")
            /\ UNCHANGED <<cv0, cv1, events>>
       ELSE /\ events' = Append(events, Event("attempt", RunRef, "pair"))
            /\ IF ~cvListBlob.hasData
               THEN /\ raise("KeyError")
                    /\ UNCHANGED <<cv0, cv1>>
               ELSE IF Len(cvListBlob.data) = 0
               THEN /\ raise("IndexError")
                    /\ UNCHANGED <<cv0, cv1>>
               ELSE IF Mismatch(RunRef, Item(cvListBlob.data, 0).id)
               THEN /\ exit(1)
                    /\ UNCHANGED <<cv0, cv1>>
               ELSE /\ cv0' = Item(cvListBlob.data, 0).id
                    /\ IF Len(cvListBlob.data) < 2
                       THEN /\ raise("IndexError")
                            /\ UNCHANGED cv1
                       ELSE /\ cv1' = Item(cvListBlob.data, 1).id
                            /\ Goto("download0")
    /\ UNCHANGED <<invocation, env, prepared, dirs, tgz, releaseBlob, nWs, key, runBlob, runKey,
                   cvListBlob, cvListKey, multipleCV, multipleCVKey, firstCV,
                   diffOut>>

\* callTFE with a downloadPath (lines 147-176): the decompressed body is
\* written to the path, or the process exits.
Download(cv, slot, path, next) ==
    \/ /\ \E f \in DownloadFailures : exit(1)
       /\ UNCHANGED <<tgz, events>>
    \/ \E body \in Payloads :
          /\ tgz' = [tgz EXCEPT ![slot] = File(cv, body)]
          /\ events' = Append(events, Event("download", cv, path))
          /\ Goto(next)

\* Lines 293-296: the archive of cv0 to cv0tgzPath.
Download0 ==
    /\ pc = "download0"
    /\ Download(cv0, "cv0", cv0tgzPath, "download1")
    /\ UNCHANGED <<invocation, env, prepared, dirs, procVars, diffOut>>

\* Lines 297-300: the archive of cv1 to cv1tgzPath (the check that follows
\* reads cv0blobDownloadCheck again, which is 'OK' here).
Download1 ==
    /\ pc = "download1"
    /\ Download(cv1, "cv1", cv1tgzPath, "open")
    /\ UNCHANGED <<invocation, env, prepared, dirs, procVars, diffOut>>

\* Lines 304-318: tarfile.open on both files.
OpenTars ==
    /\ pc = "open"
    /\ IF tgz.cv0.data.t # "tar" \/ tgz.cv1.data.t # "tar"
       THEN exit(1)
       ELSE Goto("extract0")
    /\ UNCHANGED <<invocation, env, prepared, dirs, tgz, procVars, events, diffOut>>

\* extractall of the archive in a slot into the directory of a slot.
Extract(slot, dir, next) ==
    /\ dirs' = [dirs EXCEPT ![slot] =
                  Dir(extractall(tgz[slot].data.tree,
                                 IF dirs[slot] = Absent THEN {} ELSE dirs[slot].tree))]
    /\ events' = Append(events, Event("extract", tgz[slot].cv, dir))
    /\ Goto(next)

\* Lines 322-329: cv0tgzPath into cv0tgzDir.
Extract0 ==
    /\ pc = "extract0"
    /\ Extract("cv0", "cv0tgzDir", "extract1")
    /\ UNCHANGED <<invocation, env, prepared, tgz, procVars, diffOut>>

\* Lines 331-338: cv1tgzPath into cv1tgzDir.
Extract1 ==
    /\ pc = "extract1"
    /\ Extract("cv1", "cv1tgzDir", "remove")
    /\ UNCHANGED <<invocation, env, prepared, tgz, procVars, diffOut>>

\* Lines 340-347: os.remove of both archive files.
RemoveArchives ==
    /\ pc = "remove"
    /\ IF tgz.cv0 = Absent
       THEN exit(1) /\ UNCHANGED tgz
       ELSE IF tgz.cv1 = Absent
       THEN exit(1) /\ tgz' = [cv0 |-> Absent, cv1 |-> Absent]
       ELSE /\ tgz' = [cv0 |-> Absent, cv1 |-> Absent]
            /\ Goto("diff")
    /\ UNCHANGED <<invocation, env, prepared, dirs, procVars, events, diffOut>>

\* Lines 349-358: difflib.unified_diff(cv0tgzDir, cv1tgzDir, ...): its two
\* sequences are the two path strings.
DiffDirs ==
    /\ pc = "diff"
    /\ diffOut' = unified_diff(cv0tgzDir, cv1tgzDir, cv0tgzDir, cv1tgzDir)
    /\ events' = Append(events, Event("diff", cv0, "stdout"))
    /\ Goto("details")
    /\ UNCHANGED <<invocation, env, prepared, dirs, tgz, procVars>>

\* Lines 360-423: the rest of the workspace's report; then the next workspace.
RunDetails ==
    /\ pc = "details"
    /\ key' = key + 1
    /\ Goto("run")
    /\ UNCHANGED <<invocation, env, prepared, dirs, tgz, releaseBlob, nWs, runBlob, runKey, cvListBlob,
                   cvListKey, multipleCV, multipleCVKey, firstCV, cv0, cv1,
                   events, diffOut>>

\* Line 511: handleDirectories(DEBUG, 'delete'); main returns, exit status 0.
MainDelete ==
    /\ pc = "delete"
    /\ LET r == handleDirectories(dirs, "delete")
       IN  /\ dirs' = r.dirs
           /\ IF r.ok
              THEN /\ pc' = "exited"
                   /\ exitCode' = 0
                   /\ UNCHANGED fault
              ELSE exit(1)
    /\ UNCHANGED <<invocation, env, prepared, tgz, procVars, events, diffOut>>

Next ==
    \/ Invoke
    \/ ModuleGlobals
    \/ MainChecks
    \/ MainCreate
    \/ CheckRelease
    \/ ListWorkspaces
    \/ ReportDone
    \/ FetchRun
    \/ ResolveVersions
    \/ SelectPair
    \/ Download0
    \/ Download1
    \/ OpenTars
    \/ Extract0
    \/ Extract1
    \/ RemoveArchives
    \/ DiffDirs
    \/ RunDetails
    \/ MainDelete

Spec == Init /\ [][Next]_vars

----------------------------------------------------------------------------
(* handleDirectories on its own: any sequence of 'create' and 'delete'     *)
(* calls on one filesystem, each call ending normally or in exit(1), with  *)
(* extractions filling the directories in between, as runReport does.      *)
(* events is the history of the calls, invocation their number.            *)

StagingInit ==
    /\ pc = "staging"
    /\ exitCode = -1
    /\ fault = "none"
    /\ invocation = 0
    /\ env = EnvAll
    /\ prepared = FALSE
    /\ dirs = [cv0 |-> Absent, cv1 |-> Absent]
    /\ tgz = [cv0 |-> Absent, cv1 |-> Absent]
    /\ releaseBlob = Unbound
    /\ nWs = 0
    /\ key = 0
    /\ runBlob = Unbound
    /\ runKey = 0
    /\ cvListBlob = Unbound
    /\ cvListKey = 0
    /\ multipleCV = Unbound
    /\ multipleCVKey = 0
    /\ firstCV = Unbound
    /\ cv0 = Unbound
    /\ cv1 = Unbound
    /\ events = <<>>
    /\ diffOut = <<>>

StagingCall(handle) ==
    /\ pc = "staging"
    /\ invocation < MaxCalls
    /\ invocation' = invocation + 1
    /\ LET r == handleDirectories(dirs, handle)
       IN  /\ dirs' = r.dirs
           /\ exitCode' = IF r.ok THEN -1 ELSE 1
           /\ fault' = IF r.ok THEN "none" ELSE "SystemExit"
           /\ events' = Append(events,
                               Event(handle, IF r.ok THEN "returned" ELSE "exit", "dirs"))
           /\ prepared' = IF handle = "create" THEN (r.ok \/ prepared) ELSE FALSE
    /\ UNCHANGED <<pc, env, tgz, procVars, diffOut>>

StagingCreate == StagingCall("create")

StagingDelete == StagingCall("delete")

\* An archive is extracted into one of the prepared directories.
StagingExtract ==
    /\ pc = "staging"
    /\ \E slot \in {"cv0", "cv1"}, tree \in Trees :
          /\ dirs[slot] # Absent
          /\ dirs' = [dirs EXCEPT ![slot] = Dir(extractall(tree, dirs[slot].tree))]
    /\ UNCHANGED <<pc, exitCode, fault, invocation, env, prepared, tgz, procVars,
                   events, diffOut>>

StagingNext == StagingCreate \/ StagingDelete \/ StagingExtract

SpecStaging == StagingInit /\ [][StagingNext]_vars

----------------------------------------------------------------------------
(* Vocabulary of the claims *)

BothAbsent == [cv0 |-> Absent, cv1 |-> Absent]

\* The current workspace has a latest run, fetched in this iteration.
HasRun == runBlob # Unbound /\ runKey = key /\ Len(runBlob.data) > 0

\* The version list in cvListBlob was fetched in this iteration.
Fetched == cvListBlob # Unbound /\ cvListKey = key

\* The entries of the current workspace's version list.
ListLen == IF Fetched /\ cvListBlob.hasData THEN Len(cvListBlob.data) ELSE 0

Did(op) == \E i \in DOMAIN events : events[i].op = op

NoTransfer == ~Did("download") /\ ~Did("extract") /\ ~Did("diff")

PairPcs == {"download0", "download1", "open", "extract0", "extract1", "remove",
            "diff", "details"}

----------------------------------------------------------------------------
(* C1 *)

\* The pair of the claim: positions 0 and 1 of the current workspace's list.
ClaimedPair ==
    /\ cv0 = Item(cvListBlob.data, 0).id
    /\ cv1 = Item(cvListBlob.data, 1).id
    /\ \A i \in DOMAIN events :
          /\ events[i].op = "download" =>
                events[i] \in {Event("download", cv0, cv0tgzPath),
                               Event("download", cv1, cv1tgzPath)}
          /\ events[i].op = "extract" =>
                events[i] \in {Event("extract", cv0, "cv0tgzDir"),
                               Event("extract", cv1, "cv1tgzDir")}

\* C1: for a workspace whose run references a cv- id, whose version list has
\* two or more entries and whose position-0 id is the run's id, once
\* resolution has acted the pair is (position 0, position 1), and only these
\* two are downloaded and extracted, the first into the first scratch
\* directory and the second into the second.
C1_PairSelected ==
    (/\ HasRun
     /\ ListLen >= 2
     /\ RunRef = Item(cvListBlob.data, 0).id
     /\ pc # "select")
    => ClaimedPair

----------------------------------------------------------------------------
(* C2 *)

\* C2: a workspace with exactly one configuration version, which its run
\* references, yields no pair and no fault: nothing is downloaded, extracted
\* or diffed for it and the process does not terminate.
C2_SingleVersionSkips ==
    (/\ HasRun
     /\ ListLen = 1
     /\ RunRef = Item(cvListBlob.data, 0).id)
    => /\ pc # "exited"
       /\ fault = "none"
       /\ pc \notin PairPcs \ {"details"}
       /\ NoTransfer

----------------------------------------------------------------------------
(* C3 *)

\* C3: a diff is attempted for a workspace only on that workspace's own
\* resolution: the multipleCV flag and the version list in use were both set
\* in this iteration, and both members of a pair are in that list.
C3_OwnResolutionOnly ==
    (HasRun /\ Did("attempt")) =>
       /\ multipleCVKey = key
       /\ Fetched
       /\ pc \in PairPcs =>
             /\ ListLen >= 2
             /\ \E i \in DOMAIN cvListBlob.data : cvListBlob.data[i].id = cv0
             /\ \E i \in DOMAIN cvListBlob.data : cvListBlob.data[i].id = cv1

----------------------------------------------------------------------------
(* C4 *)

\* The run's id differs from position 0 of a list of two or more entries.
MismatchCase ==
    /\ HasRun
    /\ ListLen >= 2
    /\ RunRef # Item(cvListBlob.data, 0).id

\* C4: a workspace whose version list has two or more entries and whose run
\* references another id than position 0 never gets past resolution: the
\* process is at the check or has ended with a non-zero status, nothing was
\* downloaded, extracted or diffed for the workspace, and the step taken at
\* the check ends the process with status 1.
C4_MismatchFaults ==
    /\ [](MismatchCase =>
             /\ pc \in {"select", "exited"}
             /\ pc = "exited" => exitCode # 0 /\ fault # "none"
             /\ NoTransfer)
    /\ [][(MismatchCase /\ pc = "select") => (pc' = "exited" /\ exitCode' = 1)]_vars

\* The mismatch was detected and ended the process.
C4_Witness ==
    /\ MismatchCase
    /\ Did("attempt")
    /\ pc = "exited"
    /\ exitCode = 1
    /\ fault = "SystemExit"

----------------------------------------------------------------------------
(* C5 *)

\* C5: when the two extracted trees are identical, the diff printed for the
\* workspace is empty.
C5_IdenticalTreesNoDiff ==
    (pc = "details" /\ Did("diff") /\ dirs.cv0 = dirs.cv1) => diffOut = <<>>

----------------------------------------------------------------------------
(* C6 *)

\* C6: at the moment a workspace's archives are extracted, both scratch
\* directories are empty.
C6_EmptyAtExtraction ==
    pc = "extract0" => dirs.cv0 = Dir({}) /\ dirs.cv1 = Dir({})

----------------------------------------------------------------------------
(* C7 *)

\* C7: at the exit of a process whose prepare created the scratch
\* directories, both directories are absent.
C7_DestroyedAtExit ==
    (pc = "exited" /\ prepared) => dirs = BothAbsent

----------------------------------------------------------------------------
(* C8 *)

\* C8: in any sequence of create and delete calls, a create issued while the
\* directories of an earlier create are still there ends in exit(1) and
\* leaves them as they are, and a delete leaves both directories absent.
C8_StagingIsolation ==
    [][invocation' = invocation + 1 =>
          LET call == events'[Len(events')]
          IN  /\ (call.op = "create" /\ prepared) =>
                    /\ call.cv = "exit"
                    /\ exitCode' = 1
                    /\ dirs' = dirs
              /\ call.op = "delete" => dirs' = BothAbsent]_vars

\* A create failed on the directories of an earlier create, which had been
\* filled, and a later delete removed them.
C8_Witness ==
    /\ pc = "staging"
    /\ dirs = BothAbsent
    /\ \E i, j \in DOMAIN events :
          /\ i < j
          /\ events[i] = Event("create", "exit", "dirs")
          /\ events[j] = Event("delete", "returned", "dirs")

----------------------------------------------------------------------------
(* C9 *)

\* The command line asked for the usage text and parse_args of line 481 was
\* reached: the process ended there.
HelpShown ==
    /\ pc = "exited"
    /\ env.args = "help"
    /\ env.TFE_ADDR /\ env.TFE_TOKEN /\ env.TFE_CACERT

\* C9, as stated: a fatal condition while a workspace is processed has ended
\* the process with a non-zero status, and exit status 0 is reached only when
\* every workspace of the organisation has been processed to completion.
C9_ExitZeroOnlyWhenComplete ==
    /\ (fault # "none" /\ key >= 1) => (pc = "exited" /\ exitCode # 0)
    /\ (pc = "exited" /\ exitCode = 0) => key = nWs + 1

\* C9, amended: whatever ends the process other than the end of main() ends
\* it with a non-zero status, the usage text of -h alone excepted, after which
\* this process does nothing any more (the next step is another invocation);
\* exit status 0 means that every workspace of the organisation was processed,
\* or that the usage text was asked for, and then nothing was attempted.
C9_FailFast ==
    /\ [](fault # "none" => pc = "exited" /\ (exitCode # 0 \/ HelpShown))
    /\ []((pc = "exited" /\ exitCode = 0) =>
             \/ fault = "none" /\ key = nWs + 1
             \/ HelpShown /\ ~prepared /\ key = 0 /\ releaseBlob = Unbound)
    /\ [](HelpShown => exitCode = 0)
    /\ [][pc = "exited" => invocation' = invocation + 1]_vars

\* A fault in a workspace that is not the last one ended the process.
C9_Witness ==
    /\ pc = "exited"
    /\ exitCode = 1
    /\ fault # "none"
    /\ key >= 1
    /\ key < nWs

----------------------------------------------------------------------------
(* C10 *)

\* C10: a latest run that references no configuration version (a null or
\* empty id) is no fault: the version list is not fetched, nothing is
\* downloaded, extracted or diffed, and the process does not terminate.
C10_NoReferenceSkips ==
    (HasRun /\ ~truthy(RunRef)) =>
       /\ pc # "exited"
       /\ fault = "none"
       /\ ~Did("list")
       /\ ~Did("attempt")
       /\ NoTransfer

----------------------------------------------------------------------------
(* C11 *)

\* The run references a cv- id and the list fetched for it has no entry.
EmptyListCase ==
    /\ HasRun
    /\ RunRef.t = "str"
    /\ startswith(RunRef.v, CvPrefix)
    /\ Fetched
    /\ cvListBlob.hasData
    /\ Len(cvListBlob.data) = 0

\* C11: a run that references a cv- id while the workspace's version list has
\* zero entries is a reported fatal fault: once the list is fetched the
\* process has ended by exit(1), the several versions branch was not taken
\* for this workspace and no pair selection was attempted.
C11_EmptyListFaults ==
    EmptyListCase =>
       /\ pc = "exited"
       /\ exitCode = 1
       /\ fault = "SystemExit"
       /\ multipleCVKey # key
       /\ ~Did("attempt")

----------------------------------------------------------------------------
(* C12 *)

MissingInput == ~env.TFE_ADDR \/ ~env.TFE_TOKEN \/ ~env.TFE_CACERT \/ ~env.org

ReleaseTooOld ==
    /\ releaseBlob # Unbound
    /\ IsDecimal(Slice(releaseBlob.v, 1, 7))
    /\ yearMonth(releaseBlob.v) < MinRelease

\* The process has ended on a missing input or on a release that is too old.
PreconditionFault ==
    /\ pc = "exited"
    /\ MissingInput \/ ReleaseTooOld

\* C12: a process that ended on a precondition fault exited non-zero having
\* attempted nothing: it created no scratch directory (in a first invocation
\* both are still absent, with no archive file), and it issued no workspace,
\* run, configuration-version or download request.
C12_NothingAttempted ==
    PreconditionFault =>
       /\ exitCode # 0
       /\ ~prepared
       /\ invocation = 1 => (dirs = BothAbsent /\ tgz = BothAbsent)
       /\ key = 0
       /\ runKey = 0
       /\ cvListKey = 0
       /\ events = <<>>

----------------------------------------------------------------------------
(* int() on literals with and without sign, blanks and underscores *)

IntAgreesWithPython ==
    /\ int(<<"-", "2", "0", "2", "2", "0">>) = 0 - 20220
    /\ int(<<"+", "2", "0", "2", "2", "0">>) = 20220
    /\ int(<<" ", "2", "0", "2", "2", " ">>) = 2022
    /\ int(<<"2", "_", "0", "2", "2", "0">>) = 20220
    /\ int(<<"-", "1">>) = 0 - 1
    /\ int(<<" ", "7">>) = 7
    /\ int(<<"\f", "1", "2">>) = 12
    /\ int(<<"1", "2", "">>) = 12
    /\ int(<<"\t", "-", "3", "\n">>) = 0 - 3
    /\ int(<<"1", "_", "0">>) = 10
    /\ int(<<"0", "0", "7">>) = 7
    /\ int(<<>>) = ValueError
    /\ int(<<" ">>) = ValueError
    /\ int(<<"-">>) = ValueError
    /\ int(<<"_", "1">>) = ValueError
    /\ int(<<"1", "_">>) = ValueError
    /\ int(<<"1", "_", "_", "0">>) = ValueError
    /\ int(<<"-", " ", "1">>) = ValueError
    /\ int(<<"+", "-", "1">>) = ValueError
    /\ int(<<"2", "0", "2", "2", "-", "1">>) = ValueError
    /\ int(<<"1", " ", "2">>) = ValueError

====
